---------------------------- MODULE Spec2Model ----------------------------
(***************************************************************************)
(* A model of lebrongpt's backend: the KaggleDataFetcher aggregation       *)
(* pipeline and refresh-on-read cache (backend/kaggle_data.py) and the     *)
(* player-name resolution of the HTTP handlers (backend/main.py).          *)
(*                                                                         *)
(* Strings that the code inspects character by character (player names)    *)
(* are sequences of one-character strings.  Floating point cells are       *)
(* exact rationals n/d or one of the non-finite values NaN and Inf.        *)
(***************************************************************************)
EXTENDS Integers, Sequences, FiniteSets, TLC

VARIABLES
    \* ---- KaggleDataFetcher fields (kaggle_data.py 24-27)
    _cache,          \* None or the aggregated DataFrame
    _last_fetch,     \* None or the time of the last completed refresh
    _player_names,   \* None or the sorted list of names
    \* ---- environment
    now,             \* datetime.now(), in hours
    env,             \* what the callers and the data source may do
    th,              \* per caller: position in the query it runs and its locals
    \* ---- history (not read by the program)
    hist,
    \* ---- the aggregation pipeline applied to one drawn input
    stats_df,        \* the raw game rows
    players_df,      \* the raw player-info rows
    agg,             \* what _process_data did with them
    served           \* the last answer computed from agg

vars == <<_cache, _last_fetch, _player_names, now, env, th, hist,
          stats_df, players_df, agg, served>>

None == [k |-> "None"]

-----------------------------------------------------------------------------
(* Characters and strings                                                  *)

Ord(c) ==
    CASE c = "\t" -> 9
      [] c = " "  -> 32
      [] c = "A"  -> 65
      [] c = "B"  -> 66
      [] c = "C"  -> 67
      [] c = "a"  -> 97
      [] c = "b"  -> 98
      [] c = "c"  -> 99

LowerChar(c) ==
    CASE c = "A" -> "a"
      [] c = "B" -> "b"
      [] c = "C" -> "c"
      [] OTHER   -> c

\* str.lower()
lower(s) == [i \in 1..Len(s) |-> LowerChar(s[i])]

\* Python's < on str: lexicographic by code point
RECURSIVE StrLess(_, _)
StrLess(s, t) ==
    IF t = <<>> THEN FALSE
    ELSE IF s = <<>> THEN TRUE
    ELSE IF Ord(Head(s)) # Ord(Head(t)) THEN Ord(Head(s)) < Ord(Head(t))
    ELSE StrLess(Tail(s), Tail(t))

\* sorted(set of str)
RECURSIVE sorted(_)
sorted(S) ==
    IF S = {} THEN <<>>
    ELSE LET m == CHOOSE x \in S : \A y \in S : ~StrLess(y, x)
         IN  <<m>> \o sorted(S \ {m})

RECURSIVE Concat(_)
Concat(ss) == IF ss = <<>> THEN <<>> ELSE Head(ss) \o Concat(Tail(ss))

-----------------------------------------------------------------------------
(* Floating point cells                                                    *)

Num(n, d) == [k |-> "num", n |-> n, d |-> d]
Zero == Num(0, 1)
NaN  == [k |-> "nan", n |-> 0, d |-> 1]
Inf  == [k |-> "inf", n |-> 0, d |-> 1]
IsFinite(v) == v.k = "num"

\* a / b on float64 columns: x/0 is inf, 0/0 is nan
Div(a, b) ==
    IF b # 0 THEN Num(a, b) ELSE IF a = 0 THEN NaN ELSE Inf

\* n/d rounded to the nearest integer, ties to even (round() of Python/numpy)
RoundHalfEven(n, d) ==
    LET q == n \div d
        r == n % d
    IN  IF 2 * r < d THEN q
        ELSE IF 2 * r > d THEN q + 1
        ELSE IF q % 2 = 0 THEN q ELSE q + 1

\* round(v, 1) / Series.round(1): nan and inf stay what they are
Round1(v) ==
    IF v.k = "num" THEN Num(RoundHalfEven(10 * v.n, v.d), 10) ELSE v

\* (made / attempted * 100).round(1)
Pct(made, attempted) ==
    IF attempted # 0 THEN Num(RoundHalfEven(1000 * made, attempted), 10)
    ELSE IF made = 0 THEN NaN ELSE Inf

-----------------------------------------------------------------------------
(* DataFrames: [columns |-> set of column names, rows |-> sequence of rows]. *)
(* A row is a function from column names to cells.  In the aggregated      *)
(* table the columns Regular_x, Playoffs_x, Career_x, Current_x are held   *)
(* as row[prefix][x].                                                      *)

DataFrame(cols, rows) == [columns |-> cols, rows |-> rows]

\* pd.DataFrame()
EmptyDataFrame == DataFrame({}, <<>>)

StatCols ==
    {"points", "assists", "reboundsTotal", "steals", "blocks", "turnovers",
     "fieldGoalsMade", "fieldGoalsAttempted",
     "threePointersMade", "threePointersAttempted",
     "freeThrowsMade", "freeThrowsAttempted"}

DerivedCols == {"PPG", "APG", "RPG", "SPG", "BPG", "TOPG", "FG%", "3P%", "FT%"}
PctCols == {"FG%", "3P%", "FT%"}

GroupCols == StatCols \cup {"Games"} \cup DerivedCols
CurrentCols == StatCols \cup {"Games"}
Prefixes == {"Regular", "Playoffs", "Career"}

StatsColumns == {"firstName", "lastName", "gameDate", "gameType"} \cup StatCols
PlayersColumns ==
    {"firstName", "lastName", "guard", "forward", "center", "height", "bodyWeight"}

StrV(s) == [k |-> "str", s |-> s]

\* firstName + ' ' + lastName
FullName(r) == r.firstName \o <<" ">> \o r.lastName

\* Timestamps, compared as pandas compares them
DateLE(a, b) ==
    \/ a.year < b.year
    \/ a.year = b.year /\ a.month < b.month
    \/ a.year = b.year /\ a.month = b.month /\ a.day < b.day
    \/ a.year = b.year /\ a.month = b.month /\ a.day = b.day /\ a.hour <= b.hour

\* Series.max() over the gameDate column of a non-empty frame
MaxDate(rows) ==
    LET ds == {rows[i].gameDate : i \in 1..Len(rows)}
    IN  CHOOSE d \in ds : \A e \in ds : DateLE(e, d)

\* str.contains(pattern, case=False) for the game types of the data source
ContainsPreseason(gt) == gt \in {"Preseason", "Preseason Showcase"}
ContainsRegular(gt)   == gt \in {"Regular Season", "NBA Emirates Cup"}
ContainsPlayoffs(gt)  == gt \in {"Playoffs", "Play-in Tournament"}

RECURSIVE Sum(_, _)
Sum(g, c) == IF g = <<>> THEN 0 ELSE Head(g)[c] + Sum(Tail(g), c)

\* kaggle_data.py 120-148: the cells of one groupby('Player') group
GroupCells(g) ==
    LET games == Len(g)
    IN  [c \in GroupCols |->
           CASE c \in StatCols -> Num(Sum(g, c), 1)
             [] c = "Games" -> Num(games, 1)
             [] c = "PPG"   -> Div(Sum(g, "points"), games)
             [] c = "APG"   -> Div(Sum(g, "assists"), games)
             [] c = "RPG"   -> Div(Sum(g, "reboundsTotal"), games)
             [] c = "SPG"   -> Div(Sum(g, "steals"), games)
             [] c = "BPG"   -> Div(Sum(g, "blocks"), games)
             [] c = "TOPG"  -> Div(Sum(g, "turnovers"), games)
             [] c = "FG%"   -> Pct(Sum(g, "fieldGoalsMade"),
                                   Sum(g, "fieldGoalsAttempted"))
             [] c = "3P%"   -> Pct(Sum(g, "threePointersMade"),
                                   Sum(g, "threePointersAttempted"))
             [] c = "FT%"   -> Pct(Sum(g, "freeThrowsMade"),
                                   Sum(g, "freeThrowsAttempted"))]

PlayersOf(rows) == {rows[i].Player : i \in 1..Len(rows)}
RowsOf(rows, p) == SelectSeq(rows, LAMBDA r : r.Player = p)

\* kaggle_data.py 116-154
calculate_stats(df, prefix) ==
    IF df = <<>> THEN EmptyDataFrame
    ELSE LET keys == sorted(PlayersOf(df))
         IN  DataFrame({"Player", prefix},
                 [i \in 1..Len(keys) |->
                     ("Player" :> keys[i]) @@
                     (prefix :> GroupCells(RowsOf(df, keys[i])))])

\* kaggle_data.py 174-194: means over the rows of the current season
CurrentCells(g) ==
    [c \in CurrentCols |->
        IF c = "Games" THEN Num(Len(g), 1) ELSE Div(Sum(g, c), Len(g))]

latest_stats_of(df) ==
    LET keys == sorted(PlayersOf(df))
    IN  DataFrame({"Player", "Current"},
            [i \in 1..Len(keys) |->
                ("Player" :> keys[i]) @@
                ("Current" :> CurrentCells(RowsOf(df, keys[i])))])

\* The cells a merge leaves where one side has no row for the key
Missing(col) ==
    IF col \in Prefixes THEN [c \in GroupCols |-> NaN]
    ELSE IF col = "Current" THEN [c \in CurrentCols |-> NaN]
    ELSE NaN

MissingRow(cols) == [c \in cols \ {"Player"} |-> Missing(c)]

\* the rows pd.merge(on='Player') makes for one key
JoinKey(left, right, key) ==
    LET L == RowsOf(left.rows, key)
        R == RowsOf(right.rows, key)
    IN  IF R = <<>> THEN [i \in 1..Len(L) |-> L[i] @@ MissingRow(right.columns)]
        ELSE IF L = <<>> THEN [i \in 1..Len(R) |-> R[i] @@ MissingRow(left.columns)]
        ELSE Concat([i \in 1..Len(L) |-> [j \in 1..Len(R) |-> L[i] @@ R[j]]])

\* pd.merge(left, right, on='Player', how=...): KeyError when a side has no
\* Player column; outer sorts the keys, left keeps the order of the left rows
merge(left, right, how) ==
    IF "Player" \notin left.columns \/ "Player" \notin right.columns
    THEN [raised |-> TRUE, df |-> EmptyDataFrame]
    ELSE LET rows ==
               IF how = "outer"
               THEN LET keys == sorted(PlayersOf(left.rows) \cup PlayersOf(right.rows))
                    IN  Concat([i \in 1..Len(keys) |-> JoinKey(left, right, keys[i])])
               ELSE Concat([i \in 1..Len(left.rows) |->
                       LET R == RowsOf(right.rows, left.rows[i].Player)
                       IN  IF R = <<>>
                           THEN <<left.rows[i] @@ MissingRow(right.columns)>>
                           ELSE [j \in 1..Len(R) |-> left.rows[i] @@ R[j]]])
         IN  [raised |-> FALSE,
              df |-> DataFrame(left.columns \cup right.columns, rows)]

FillCell(v) == IF v.k = "nan" THEN Zero ELSE v

\* DataFrame.fillna(0) on the merged Regular/Playoffs/Career table
fillna(df) ==
    DataFrame(df.columns,
        [i \in 1..Len(df.rows) |->
            [col \in DOMAIN df.rows[i] |->
                IF col = "Player" THEN df.rows[i][col]
                ELSE [c \in DOMAIN df.rows[i][col] |-> FillCell(df.rows[i][col][c])]]])

\* kaggle_data.py 169-172
latest_season_start(latest_date) ==
    IF latest_date.month < 10
    THEN [latest_date EXCEPT !.month = 10, !.day = 1, !.year = @ - 1]
    ELSE [latest_date EXCEPT !.month = 10, !.day = 1]

\* kaggle_data.py 204-207
Position(row) ==
    IF row.guard = 1 THEN "G"
    ELSE IF row.forward = 1 THEN "F"
    ELSE IF row.center = 1 THEN "C"
    ELSE "Unknown"

\* kaggle_data.py 201-217: players_df[['Player','Position','height','bodyWeight']]
\* under the names the rename gives the columns
bio_frame(pdf) ==
    DataFrame({"Player", "Position", "Height", "Weight"},
        [i \in 1..Len(pdf.rows) |->
            [Player   |-> FullName(pdf.rows[i]),
             Position |-> StrV(Position(pdf.rows[i])),
             Height   |-> pdf.rows[i].height,
             Weight   |-> pdf.rows[i].bodyWeight]])

\* kaggle_data.py 96: stats_df['Player'] = firstName + ' ' + lastName
with_player(rows) ==
    [i \in 1..Len(rows) |-> ("Player" :> FullName(rows[i])) @@ rows[i]]

\* kaggle_data.py 99
player_names_of(sdf) == sorted(PlayersOf(with_player(sdf.rows)))

Raised(names_set, names) ==
    [raised |-> TRUE, names_set |-> names_set, names |-> names,
     df |-> EmptyDataFrame]

\* kaggle_data.py 92-223.  names_set tells whether line 99 assigned
\* self._player_names before the method returned or raised.
_process_data(sdf, pdf) ==
    IF ~({"firstName", "lastName"} \subseteq sdf.columns)
    THEN Raised(FALSE, <<>>)
    ELSE
    LET names == player_names_of(sdf)
    IN
    IF ~({"gameDate", "gameType"} \subseteq sdf.columns)
    THEN Raised(TRUE, names)
    ELSE
    LET all      == with_player(sdf.rows)
        stats    == SelectSeq(all, LAMBDA r : ~ContainsPreseason(r.gameType))
        regular_season_df == SelectSeq(stats, LAMBDA r : ContainsRegular(r.gameType))
        playoffs_df       == SelectSeq(stats, LAMBDA r : ContainsPlayoffs(r.gameType))
        regular_season_stats == calculate_stats(regular_season_df, "Regular")
        playoffs_stats       == calculate_stats(playoffs_df, "Playoffs")
        combined_stats       == calculate_stats(stats, "Career")
        m1 == merge(regular_season_stats, playoffs_stats, "outer")
    IN
    IF m1.raised THEN Raised(TRUE, names)
    ELSE
    LET m2 == merge(m1.df, combined_stats, "outer")
    IN
    IF m2.raised THEN Raised(TRUE, names)
    ELSE
    LET filled == fillna(m2.df)
        start  == latest_season_start(MaxDate(stats))
        latest_stats ==
            latest_stats_of(SelectSeq(stats, LAMBDA r : DateLE(start, r.gameDate)))
        m3 == merge(filled, latest_stats, "left")
        final_stats ==
            IF {"firstName", "lastName"} \subseteq pdf.columns
            THEN IF {"guard", "forward", "center", "height", "bodyWeight"}
                        \subseteq pdf.columns
                 THEN merge(m3.df, bio_frame(pdf), "left")
                 ELSE [raised |-> TRUE, df |-> EmptyDataFrame]
            ELSE m3
    IN
    IF final_stats.raised THEN Raised(TRUE, names)
    ELSE [raised |-> FALSE, names_set |-> TRUE, names |-> names,
          df |-> final_stats.df]

\* the formatting loop without its test for the infinities
SanitizeNaNOnly(v) ==
    IF v.k = "nan" THEN Zero ELSE Round1(v)

\* kaggle_data.py 260-266
Sanitize(v) ==
    IF v.k \in {"nan", "inf"} THEN Zero ELSE Round1(v)

\* kaggle_data.py 258-268: player_data.iloc[0].to_dict(), floats formatted
format_row(row) ==
    [col \in DOMAIN row |->
        IF col = "Player" THEN row[col]
        ELSE IF col \in Prefixes \cup {"Current"}
        THEN [c \in DOMAIN row[col] |-> Sanitize(row[col][c])]
        ELSE Sanitize(row[col])]

\* kaggle_data.py 249-268, on the cached table
lookup_stats(cache, player_name) ==
    LET player_data ==
            SelectSeq(cache.rows, LAMBDA r : lower(r.Player) = lower(player_name))
    IN  IF player_data = <<>> THEN None
        ELSE [k |-> "stats", v |-> format_row(player_data[1])]

-----------------------------------------------------------------------------
(* main.py: name resolution of the handlers                                *)

\* main.py 34-36: name.replace(" ", "").lower()
normalize_player_name(name) == lower(SelectSeq(name, LAMBDA c : c # " "))

NoMatch == [k |-> "None"]
Match(p) == [k |-> "name", v |-> p]

\* main.py 52-56 (GET /player): the scan stops at the first match
RECURSIVE resolve_first(_, _)
resolve_first(all_players, normalized_name) ==
    IF all_players = <<>> THEN NoMatch
    ELSE IF normalize_player_name(Head(all_players)) = normalized_name
    THEN Match(Head(all_players))
    ELSE resolve_first(Tail(all_players), normalized_name)

\* main.py 83-89 and 113-119 (GET/POST /compare): no break, the last match stays
RECURSIVE resolve_scan(_, _, _)
resolve_scan(all_players, normalized_name, matching) ==
    IF all_players = <<>> THEN matching
    ELSE resolve_scan(Tail(all_players), normalized_name,
            IF normalize_player_name(Head(all_players)) = normalized_name
            THEN Match(Head(all_players)) ELSE matching)

resolve_compare(all_players, normalized_name) ==
    resolve_scan(all_players, normalized_name, NoMatch)

-----------------------------------------------------------------------------
(* The raw inputs the checks draw from                                     *)

MaxRows == 2        \* game rows in a drawn PlayerStatistics.csv

Date(y, m, d, h) == [year |-> y, month |-> m, day |-> d, hour |-> h]

\* box scores: a scoreless game, an ordinary game, and a game whose makes
\* exceed its attempts (2 field goals on 1 attempt, a three on 0 attempts)
BoxZero == [c \in StatCols |-> 0]
BoxTypical ==
    [points |-> 10, assists |-> 2, reboundsTotal |-> 3, steals |-> 1,
     blocks |-> 1, turnovers |-> 2,
     fieldGoalsMade |-> 4, fieldGoalsAttempted |-> 8,
     threePointersMade |-> 1, threePointersAttempted |-> 3,
     freeThrowsMade |-> 1, freeThrowsAttempted |-> 1]
BoxAnomalous ==
    [points |-> 5, assists |-> 0, reboundsTotal |-> 0, steals |-> 0,
     blocks |-> 0, turnovers |-> 0,
     fieldGoalsMade |-> 2, fieldGoalsAttempted |-> 1,
     threePointersMade |-> 1, threePointersAttempted |-> 0,
     freeThrowsMade |-> 0, freeThrowsAttempted |-> 0]

PlayerAB == [firstName |-> <<"A">>, lastName |-> <<"B">>]
Playerab == [firstName |-> <<"a">>, lastName |-> <<"b">>]
PlayerBA == [firstName |-> <<"B">>, lastName |-> <<"A">>]

Oct1Noon    == Date(2023, 10, 1, 12)
Jun15Night  == Date(2024, 6, 15, 20)

GameRow(p, d, gt, box) ==
    [firstName |-> p.firstName, lastName |-> p.lastName,
     gameDate |-> d, gameType |-> gt] @@ box

\* every sequence of at most n elements of the sequence dom, in the order of
\* dom (the aggregation does not depend on the order of the CSV's rows)
OrderedSeqs(dom, n) ==
    UNION {
        { [j \in 1..len |-> dom[ix[j]]] :
            ix \in { f \in [1..len -> 1..Len(dom)] :
                        \A j \in 1..(len - 1) : f[j] <= f[j + 1] } } :
        len \in 0..n }

RECURSIVE SetToSeq(_)
SetToSeq(S) ==
    IF S = {} THEN <<>>
    ELSE LET x == CHOOSE y \in S : TRUE IN <<x>> \o SetToSeq(S \ {x})

GameRows ==
    SetToSeq({ GameRow(p, d, gt, box) :
        p \in {PlayerAB, Playerab},
        d \in {Oct1Noon, Jun15Night},
        gt \in {"Regular Season", "Playoffs", "Preseason"},
        box \in {BoxZero, BoxTypical, BoxAnomalous} })

\* rows that differ in the player only, for the checks of name resolution
NameRows ==
    SetToSeq({ GameRow(p, Oct1Noon, gt, BoxTypical) :
        p \in {PlayerAB, Playerab, PlayerBA},
        gt \in {"Regular Season", "Playoffs"} })

InfoRow(p, g, f, c, h, w) ==
    [firstName |-> p.firstName, lastName |-> p.lastName,
     guard |-> g, forward |-> f, center |-> c, height |-> h, bodyWeight |-> w]

InfoRows ==
    << InfoRow(PlayerAB, 1, 1, 0, Num(81, 1), Num(250, 1)),
       InfoRow(PlayerAB, 0, 0, 0, NaN, NaN) >>

StatsFrames(dom) ==
    { DataFrame(StatsColumns, rows) : rows \in OrderedSeqs(dom, MaxRows) }
\* Players.csv: one row, or two rows of the same name
PlayersFrames ==
    { DataFrame(PlayersColumns, SubSeq(InfoRows, 1, n)) : n \in 1..Len(InfoRows) }

\* the names a caller asks for: stored ones in other spellings, and a stranger
QueryNames ==
    { <<"A", " ", "B">>, <<"a", " ", "b">>, <<"A", "B">>, <<"A", "\t", "B">>,
      <<"B", " ", "A">>, <<"C", " ", "C">> }
\* the names get_player_stats is asked for: two stored ones and a stranger
StatsNames == { <<"A", " ", "B">>, <<"a", " ", "b">>, <<"C", " ", "C">> }

-----------------------------------------------------------------------------
(* The pipeline applied to one drawn input                                 *)

NotRun == [k |-> "NotRun"]
Nothing == [k |-> "Nothing"]
NoThreads == <<>>
NoHist == [k |-> "NoHist"]
NoEnv == [source |-> {}, names |-> {}, max_fetches |-> 0, max_time |-> 0]

FetcherIdle ==
    /\ _cache = None
    /\ _last_fetch = None
    /\ _player_names = None
    /\ now = 0
    /\ env = NoEnv
    /\ th = NoThreads
    /\ hist = NoHist

InitWith(frames) ==
    /\ FetcherIdle
    /\ stats_df \in frames
    /\ players_df \in PlayersFrames
    /\ agg = NotRun
    /\ served = Nothing

FetcherVars == <<_cache, _last_fetch, _player_names, now, env, th, hist>>

\* _process_data(stats_df, players_df)
ProcessData ==
    /\ agg = NotRun
    /\ agg' = [k |-> "Ran", r |-> _process_data(stats_df, players_df)]
    /\ UNCHANGED <<FetcherVars, stats_df, players_df, served>>

Aggregated == agg # NotRun /\ ~agg.r.raised

\* get_player_stats(player_name) on the aggregated table (249-268)
GetPlayerStats(player_name) ==
    /\ Aggregated
    /\ served' = [op |-> "get_player_stats", arg |-> player_name,
                  out |-> lookup_stats(agg.r.df, player_name)]
    /\ UNCHANGED <<FetcherVars, stats_df, players_df, agg>>

\* what get_all_players() hands to main.py: the name list of a refresh that
\* succeeded, [] when the refresh raised (234, 236-238)
all_players == IF Aggregated THEN agg.r.names ELSE <<>>

\* GET /player/{player_name}: main.py 46-56 on the name list
ResolvePlayer(player_name) ==
    /\ agg # NotRun
    /\ served' = [op |-> "player", arg |-> player_name,
                  out |-> resolve_first(all_players,
                                        normalize_player_name(player_name))]
    /\ UNCHANGED <<FetcherVars, stats_df, players_df, agg>>

\* GET /compare: main.py 76-89 on the name list, for one of its two names
ResolveCompare(player_name) ==
    /\ agg # NotRun
    /\ served' = [op |-> "compare", arg |-> player_name,
                  out |-> resolve_compare(all_players,
                                          normalize_player_name(player_name))]
    /\ UNCHANGED <<FetcherVars, stats_df, players_df, agg>>

InitAgg == InitWith(StatsFrames(GameRows))
NextAgg ==
    \/ ProcessData
    \/ \E n \in StatsNames : GetPlayerStats(n)
SpecAgg == InitAgg /\ [][NextAgg]_vars

InitResolve == InitWith(StatsFrames(NameRows))
NextResolve ==
    \/ ProcessData
    \/ \E n \in QueryNames : ResolvePlayer(n)
    \/ \E n \in QueryNames : ResolveCompare(n)
SpecResolve == InitResolve /\ [][NextResolve]_vars

-----------------------------------------------------------------------------
(* The refresh-on-read cache of KaggleDataFetcher, called by the callers   *)
(* DOMAIN th.  A query is a sequence of steps; between two steps of one    *)
(* caller the clock may advance and, when there are several callers,       *)
(* another caller may run.                                                 *)

_cache_duration == 1   \* timedelta(hours=1)
MaxTime == 3         \* hours the clock runs, one caller
MaxFetches == 3      \* refreshes that may start, one caller
MaxConcTime == 1     \* hours the clock runs, two callers
MaxConcFetches == 2  \* refreshes that may start, two callers

List(s) == [k |-> "list", v |-> s]
Time(t) == [k |-> "time", t |-> t]

Dataset(cols, rows) ==
    [stats   |-> DataFrame(cols, rows),
     players |-> DataFrame(PlayersColumns, <<InfoRows[1]>>)]

RemoteRows ==
    << GameRow(PlayerAB, Oct1Noon, "Regular Season", BoxTypical),
       GameRow(PlayerAB, Oct1Noon, "Playoffs", BoxTypical),
       GameRow(PlayerBA, Oct1Noon, "Playoffs", BoxTypical) >>

\* what the source may serve: every selection of RemoteRows, as a well-formed
\* file, as a file without the firstName column (line 96 raises) and as a
\* file without the gameType column (line 105 raises)
RemoteSource ==
    { Dataset(cols, SelectSeq(RemoteRows, LAMBDA r : r \in keep)) :
        cols \in {StatsColumns, StatsColumns \ {"firstName"},
                  StatsColumns \ {"gameType"}},
        keep \in SUBSET {RemoteRows[i] : i \in 1..Len(RemoteRows)} }

ConcSource ==
    { Dataset(cols, <<RemoteRows[1], RemoteRows[2]>>) :
        cols \in {StatsColumns, StatsColumns \ {"firstName"},
                  StatsColumns \ {"gameType"}} }

\* _process_data on each dataset the source may serve, computed once
Processed ==
    [d \in RemoteSource \cup ConcSource |-> _process_data(d.stats, d.players)]

CallNames == { <<"A", " ", "B">>, <<"B", " ", "A">> }
ConcCallNames == { <<"A", " ", "B">> }

Idle ==
    [pc |-> "idle", op |-> "", arg |-> <<>>, arg2 |-> <<>>, stage |-> 0,
     df |-> Nothing, failed |-> FALSE, run |-> 0, pre |-> Nothing,
     first |-> Nothing, ret |-> Nothing]

Snapshot == [cache |-> _cache, last_fetch |-> _last_fetch, names |-> _player_names]

InitFetcher(threads, e) ==
    /\ _cache = None
    /\ _last_fetch = None
    /\ _player_names = None
    /\ now = 0
    /\ env = e
    /\ th = [t \in threads |-> Idle]
    /\ hist = [fetches |-> 0, names_run |-> 0, cache_run |-> 0,
               first |-> Nothing]
    /\ stats_df = EmptyDataFrame
    /\ players_df = EmptyDataFrame
    /\ agg = NotRun
    /\ served = Nothing

AggVars == <<stats_df, players_df, agg, served>>

\* the staleness test with >= for >
StaleAtWindowEnd ==
    \/ _cache = None
    \/ _last_fetch = None
    \/ now - _last_fetch.t >= _cache_duration

\* kaggle_data.py 229-230 and 244-245
Stale ==
    \/ _cache = None
    \/ _last_fetch = None
    \/ now - _last_fetch.t > _cache_duration

\* a caller enters get_all_players, get_player_stats or get_comparison_stats
Call(t, op, a, a2) ==
    /\ th[t].pc \in {"idle", "done"}
    /\ th' = [th EXCEPT ![t] =
                [Idle EXCEPT !.pc = "check", !.op = op, !.arg = a,
                             !.arg2 = a2, !.stage = 1]]
    /\ UNCHANGED <<_cache, _last_fetch, _player_names, now, env, hist, AggVars>>

\* the test of lines 229-230 / 244-245; a stale cache starts _fetch_data
Check(t) ==
    /\ th[t].pc = "check"
    /\ IF Stale
       THEN /\ hist.fetches < env.max_fetches
            /\ th' = [th EXCEPT ![t].pc = "download",
                                ![t].run = hist.fetches + 1,
                                ![t].pre = Snapshot]
            /\ hist' = [hist EXCEPT !.fetches = @ + 1]
       ELSE /\ th' = [th EXCEPT ![t].pc = "read"]
            /\ UNCHANGED hist
    /\ UNCHANGED <<_cache, _last_fetch, _player_names, now, env, AggVars>>

ArgOf(c) == IF c.stage = 1 THEN c.arg ELSE c.arg2

\* what get_comparison_stats returns from its two get_player_stats results
\* (kaggle_data.py 280-286)
ComparisonOf(s1, s2) ==
    IF s1 = None \/ s2 = None THEN None
    ELSE [k |-> "pair", player1 |-> s1.v, player2 |-> s2.v]

\* the caller's record once get_all_players / get_player_stats returns v,
\* after a refresh that raised (failed) or not
Returned(c, v, failed) ==
    IF c.op = "get_comparison_stats" /\ c.stage = 1
    THEN [c EXCEPT !.pc = "check", !.stage = 2, !.first = v, !.df = Nothing,
                   !.failed = c.failed \/ failed]
    ELSE [c EXCEPT !.pc = "done", !.df = Nothing,
                   !.failed = c.failed \/ failed,
                   !.ret = IF c.op = "get_comparison_stats"
                           THEN ComparisonOf(c.first, v) ELSE v]

\* the except clauses: get_all_players returns [] (236-238),
\* get_player_stats returns None (270-272)
Except(c) ==
    Returned(c, IF c.op = "get_all_players" THEN List(<<>>) ELSE None, TRUE)

FirstFailed(c) ==
    IF c.run = 1 THEN [hist EXCEPT !.first = [ok |-> FALSE]] ELSE hist

\* _fetch_data 63-79 raises: the download or the read of the CSVs fails
DownloadFails(t) ==
    /\ th[t].pc = "download"
    /\ th' = [th EXCEPT ![t] = Except(th[t])]
    /\ hist' = FirstFailed(th[t])
    /\ UNCHANGED <<_cache, _last_fetch, _player_names, now, env, AggVars>>

\* _fetch_data 63-86 and _process_data 96-99: the files arrive and the
\* name list is stored, unless line 96 raises
Downloaded(t, d) ==
    /\ th[t].pc = "download"
    /\ LET r == Processed[d]
       IN  IF r.names_set
           THEN /\ _player_names' = List(r.names)
                /\ th' = [th EXCEPT ![t].pc = "aggregate", ![t].df = d]
                /\ hist' = [hist EXCEPT !.names_run = th[t].run]
           ELSE /\ th' = [th EXCEPT ![t] = Except(th[t])]
                /\ hist' = FirstFailed(th[t])
                /\ UNCHANGED _player_names
    /\ UNCHANGED <<_cache, _last_fetch, now, env, AggVars>>

\* _process_data 101-219 and the assignment of line 231 / 246
Aggregate(t) ==
    /\ th[t].pc = "aggregate"
    /\ LET r == Processed[th[t].df]
       IN  IF r.raised
           THEN /\ th' = [th EXCEPT ![t] = Except(th[t])]
                /\ hist' = FirstFailed(th[t])
                /\ UNCHANGED _cache
           ELSE /\ _cache' = r.df
                /\ th' = [th EXCEPT ![t].pc = "stamp", ![t].df = Nothing]
                /\ hist' = [hist EXCEPT !.cache_run = th[t].run]
    /\ UNCHANGED <<_last_fetch, _player_names, now, env, AggVars>>

\* line 232 / 247: self._last_fetch = datetime.now()
Stamp(t) ==
    /\ th[t].pc = "stamp"
    /\ _last_fetch' = Time(now)
    /\ th' = [th EXCEPT ![t].pc = "read"]
    /\ hist' = IF th[t].run = 1
               THEN [hist EXCEPT !.first =
                        [ok |-> TRUE, at |-> now,
                         snapshot |-> [Snapshot EXCEPT !.last_fetch = Time(now)]]]
               ELSE hist
    /\ UNCHANGED <<_cache, _player_names, now, env, AggVars>>

\* line 234 (return self._player_names) or lines 249-268
Read(t) ==
    /\ th[t].pc = "read"
    /\ th' = [th EXCEPT ![t] =
                Returned(th[t],
                         IF th[t].op = "get_all_players" THEN _player_names
                         ELSE lookup_stats(_cache, ArgOf(th[t])),
                         FALSE)]
    /\ UNCHANGED <<_cache, _last_fetch, _player_names, now, env, hist, AggVars>>

\* an hour passes
Tick ==
    /\ now < env.max_time
    /\ now' = now + 1
    /\ UNCHANGED <<_cache, _last_fetch, _player_names, env, th, hist, AggVars>>

Next ==
    \/ \E t \in DOMAIN th : Call(t, "get_all_players", <<>>, <<>>)
    \/ \E t \in DOMAIN th : \E a \in env.names : Call(t, "get_player_stats", a, <<>>)
    \/ \E t \in DOMAIN th : \E a, b \in env.names :
            Call(t, "get_comparison_stats", a, b)
    \/ \E t \in DOMAIN th : Check(t)
    \/ \E t \in DOMAIN th : DownloadFails(t)
    \/ \E t \in DOMAIN th : \E d \in env.source : Downloaded(t, d)
    \/ \E t \in DOMAIN th : Aggregate(t)
    \/ \E t \in DOMAIN th : Stamp(t)
    \/ \E t \in DOMAIN th : Read(t)
    \/ Tick

\* one caller at a time
Init ==
    InitFetcher({1}, [source |-> RemoteSource, names |-> CallNames,
                      max_fetches |-> MaxFetches, max_time |-> MaxTime])
Spec == Init /\ [][Next]_vars

\* two callers (two threads serving requests)
InitConc ==
    InitFetcher({1, 2}, [source |-> ConcSource, names |-> ConcCallNames,
                         max_fetches |-> MaxConcFetches,
                         max_time |-> MaxConcTime])
SpecConc == InitConc /\ [][Next]_vars

-----------------------------------------------------------------------------
(* Properties of the cache, one caller (Spec)                              *)

Callers == DOMAIN th
InRefresh(t) == th[t].pc \in {"download", "aggregate", "stamp"}

\* C1: when a refresh started by get_all_players or get_player_stats fails,
\* in the fetch or anywhere in the aggregation, the cache entry (table, name
\* list, fetch time) is what it was when the refresh started.
C1_FailedRefreshKeepsEntry ==
    \A t \in Callers :
        (/\ th[t].pc = "done"
         /\ th[t].failed
         /\ th[t].op \in {"get_all_players", "get_player_stats"})
        => Snapshot = th[t].pre

\* C2: from an Empty cache whose first refresh succeeds, as long as no more
\* than the freshness window has passed since that refresh, one fetch has
\* been made, the cache entry is the one that refresh installed, and a
\* finished get_all_players has returned the name list of that entry.
C2_OneFetchInWindow ==
    (/\ hist.first # Nothing
     /\ hist.first.ok
     /\ now - hist.first.at <= _cache_duration)
    => /\ hist.fetches = 1
       /\ Snapshot = hist.first.snapshot
       /\ \A t \in Callers :
            (th[t].pc = "done" /\ th[t].op = "get_all_players")
            => th[t].ret = hist.first.snapshot.names

\* a later query has returned without a fetch, at the very end of the window
C2_Witness ==
    /\ hist.first # Nothing
    /\ hist.first.ok
    /\ now - hist.first.at = _cache_duration
    /\ hist.fetches = 1
    /\ \E t \in Callers :
        /\ th[t].pc = "done"
        /\ th[t].run = 0
        /\ th[t].op = "get_comparison_stats"
        /\ th[t].ret # None

\* C4: whenever no refresh is under way (before, between and after
\* refreshes, failed ones included) the cached table and the cached name
\* list come from the same aggregation run.
C4_TableAndNamesFromOneRun ==
    (\A t \in Callers : ~InRefresh(t)) => hist.names_run = hist.cache_run

\* C5: a query whose refresh failed does not return an ordinary result: not
\* the empty name list, not the NotFound value None.
C5_FailureIsDistinguishable ==
    \A t \in Callers :
        (th[t].pc = "done" /\ th[t].failed)
        => (th[t].ret # List(<<>>) /\ th[t].ret # None)

-----------------------------------------------------------------------------
(* Properties of the cache, two callers (SpecConc)                         *)

\* C3: at no time are two refreshes (fetch, aggregation, swap) under way,
\* and callers that saw the same stale cache start one refresh between them.
C3_OneRefreshInFlight ==
    /\ Cardinality({t \in Callers : InRefresh(t)}) <= 1
    /\ \A t, u \in Callers :
        (t # u /\ InRefresh(t) /\ InRefresh(u)) => th[t].pre # th[u].pre

-----------------------------------------------------------------------------
(* Properties of the aggregation (SpecAgg)                                 *)

NonPreseason(rows) == SelectSeq(rows, LAMBDA r : ~ContainsPreseason(r.gameType))

\* the value of a cell is a / b
Is(v, a, b) == v.k = "num" /\ v.n * b = a * v.d

\* C6: for a non-empty set of game rows the aggregation yields a table in
\* which every player with a row in the Regular, Playoffs or Career subset
\* has exactly one row.
C6_EveryPlayerExactlyOnce ==
    (agg # NotRun /\ stats_df.rows # <<>>)
    => /\ ~agg.r.raised
       /\ \A p \in PlayersOf(NonPreseason(with_player(stats_df.rows))) :
            Len(RowsOf(agg.r.df.rows, p)) = 1

\* C7: when all game rows are Regular Season rows of one player (all of them
\* in the current season), the aggregation succeeds and the player's row has
\* Regular_Games = Career_Games = Current_Games = the number of rows,
\* Regular_PPG = the points divided by it, and zero Playoffs_* cells.
C7_RegularSeasonOnlyScenario ==
    LET rows == with_player(stats_df.rows)
        n == Len(rows)
    IN  (/\ agg # NotRun
         /\ n > 0
         /\ \A i \in 1..n : rows[i].gameType = "Regular Season"
         /\ Cardinality(PlayersOf(rows)) = 1)
        => /\ ~agg.r.raised
           /\ Len(agg.r.df.rows) >= 1
           /\ LET row == agg.r.df.rows[1]
              IN  /\ Is(row.Regular["Games"], n, 1)
                  /\ Is(row.Career["Games"], n, 1)
                  /\ Is(row.Current["Games"], n, 1)
                  /\ Is(row.Regular["PPG"], Sum(rows, "points"), n)
                  /\ \A c \in GroupCols : Is(row.Playoffs[c], 0, 1)

NumericCols == {"Height", "Weight"}

CellsOf(stats) ==
    {stats[g][c] : g \in Prefixes, c \in GroupCols}
        \cup {stats.Current[c] : c \in CurrentCols}
        \cup {stats[c] : c \in NumericCols \cap DOMAIN stats}

Attempts(c) ==
    CASE c = "FG%" -> "fieldGoalsAttempted"
      [] c = "3P%" -> "threePointersAttempted"
      [] c = "FT%" -> "freeThrowsAttempted"
Makes(c) ==
    CASE c = "FG%" -> "fieldGoalsMade"
      [] c = "3P%" -> "threePointersMade"
      [] c = "FT%" -> "freeThrowsMade"

Served == served # Nothing /\ served.out # None

\* C9: every numeric field served by get_player_stats is finite, and every
\* shooting percentage is in [0, 100] and 0 when the attempts are 0.
C9_PercentagesWithin100 ==
    Served =>
        LET stats == served.out.v
        IN  /\ \A v \in CellsOf(stats) : IsFinite(v)
            /\ \A g \in Prefixes : \A c \in PctCols :
                /\ 0 <= stats[g][c].n
                /\ stats[g][c].n <= 100 * stats[g][c].d
                /\ Is(stats[g][Attempts(c)], 0, 1) => Is(stats[g][c], 0, 1)

\* C9 for the inputs on which it holds: every numeric field served by
\* get_player_stats is finite; every shooting percentage is 0 when the summed
\* attempts are 0, and is in [0, 100] when the summed makes are at least 0
\* and at most the summed attempts.
C9_ServedFieldsFinite ==
    Served =>
        LET stats == served.out.v
        IN  /\ \A v \in CellsOf(stats) : IsFinite(v)
            /\ \A g \in Prefixes : \A c \in PctCols :
                /\ Is(stats[g][Attempts(c)], 0, 1) => Is(stats[g][c], 0, 1)
                /\ (/\ 0 <= stats[g][Makes(c)].n
                    /\ stats[g][Makes(c)].n * stats[g][Attempts(c)].d
                            <= stats[g][Attempts(c)].n * stats[g][Makes(c)].d)
                   => /\ 0 <= stats[g][c].n
                      /\ stats[g][c].n <= 100 * stats[g][c].d

\* a served row whose cached row has an infinite percentage (a make on no
\* attempt), a NaN bio cell and a percentage strictly between 0 and 100
C9_Witness ==
    /\ Served
    /\ LET row == SelectSeq(agg.r.df.rows,
                    LAMBDA r : lower(r.Player) = lower(served.arg))[1]
       IN  /\ \E g \in Prefixes : row[g]["3P%"].k = "inf"
           /\ \E g \in Prefixes : Is(row[g]["FG%"], 50, 1)
           /\ row.Height.k = "nan"
           /\ \A v \in CellsOf(served.out.v) : IsFinite(v)

\* C10: the current season starts on October 1st of the year of the latest
\* game date of all rows (of the year before when that date is in January to
\* September); a player's Current_Games is the number of the player's rows on
\* or after that day, whatever the hour, and a player without such a row has
\* no Current_* cells.
C10_CurrentSeasonWindow ==
    Aggregated =>
        LET all == with_player(stats_df.rows)
            latest == MaxDate(all)
            y == IF latest.month < 10 THEN latest.year - 1 ELSE latest.year
            InSeason(d) == d.year > y \/ (d.year = y /\ d.month >= 10)
            games(p) ==
                Len(SelectSeq(NonPreseason(all),
                        LAMBDA r : r.Player = p /\ InSeason(r.gameDate)))
        IN  \A i \in 1..Len(agg.r.df.rows) :
                LET row == agg.r.df.rows[i]
                IN  IF games(row.Player) = 0
                    THEN row.Current["Games"].k = "nan"
                    ELSE Is(row.Current["Games"], games(row.Player), 1)

-----------------------------------------------------------------------------
(* Properties of the name resolution (SpecResolve)                         *)

IsWhitespace(c) == c \in {" ", "\t"}

\* C8: both lookups return the first name of the list whose form without
\* whitespace and in lower case equals that form of the input, or none.
C8_FirstMatchIgnoringWhitespace ==
    (served # Nothing /\ served.op \in {"player", "compare"})
    => LET norm(s) == lower(SelectSeq(s, LAMBDA c : ~IsWhitespace(c)))
           names == all_players
           hits == {i \in 1..Len(names) : norm(names[i]) = norm(served.arg)}
       IN  IF hits = {} THEN served.out = NoMatch
           ELSE served.out =
                    Match(names[CHOOSE i \in hits : \A j \in hits : i <= j])

=============================================================================
